---------------------------- MODULE Spec2Model ----------------------------
(***************************************************************************)
(* A model of IntelliDocX: the OCR result normalizer (src/src/ocr_engine.py),*)
(* the keyword classifier and the field extractor (src/src/extraction.py)  *)
(* and the page loop of the application (src/app.py).                      *)
(*                                                                         *)
(* Python values are records tagged by their type in field t.  A string is *)
(* the sequence of its characters (field s), so that substring search,     *)
(* strip(), lower() and the regular expressions are computed and not       *)
(* assumed.  A float is the decimal m / 10^e with no trailing zero.        *)
(***************************************************************************)
EXTENDS Naturals, Sequences, FiniteSets

VARIABLES
    cl_text,    \* classifier run: the text handed to detect_document_type
    cl_n,       \* how many fragments were appended to it
    cl_pc,      \* "input" while the text is being composed, then "done"
    cl_out,     \* the label detect_document_type returned
    am_raw,     \* amount run: the raw token handed to _extract_amount
    am_typed,   \* how many characters were typed after the seed token
    am_pc,      \* "input", then "done"
    am_out,     \* what _extract_amount returned
    ex_text,    \* extraction run: the text handed to extract_fields
    ex_doc,     \* the doc_type handed to extract_fields
    ex_rules,   \* the custom rules handed to it, as the items of the mapping
    ex_pc,      \* "input", then "returned" or "raised"
    ex_out,     \* the mapping extract_fields returned
    oc_pc,      \* direct call of ocr_image: "idle", then "returned" or "raised"
    oc_out,     \* what the engine returned in that call
    oc_flag,    \* its return_word_boxes
    oc_result,  \* its local `result` after line 121
    oc_ret,     \* the payload it returned
    app_pc,     \* application run: "idle", "loop", then "done" or "failed"
    app_outs,   \* what the engine returned for each page processed so far
    app_n,      \* the number of page images of the uploaded file
    app_enable, \* the sidebar's enable_rules
    app_rules,  \* the sidebar's rules text, as json.loads reads it
    app_pages,  \* all_pages_results
    app_payload \* result_payload

vars == << cl_text, cl_n, cl_pc, cl_out, am_raw, am_typed, am_pc, am_out,
          ex_text, ex_doc, ex_rules, ex_pc, ex_out,
          oc_pc, oc_out, oc_flag, oc_result, oc_ret,
          app_pc, app_outs, app_n, app_enable, app_rules, app_pages, app_payload >>

cl_vars == << cl_text, cl_n, cl_pc, cl_out >>
am_vars == << am_raw, am_typed, am_pc, am_out >>
ex_vars == << ex_text, ex_doc, ex_rules, ex_pc, ex_out >>
oc_vars == << oc_pc, oc_out, oc_flag, oc_result, oc_ret >>
app_vars == << app_pc, app_outs, app_n, app_enable, app_rules, app_pages, app_payload >>

---------------------------------------------------------------------------
(* Python values *)

PyNone == [t |-> "None"]
PyStr(s) == [t |-> "str", s |-> s]
PyInt(n) == [t |-> "int", n |-> n]
PyFloat(m, e) == [t |-> "float", m |-> m, e |-> e]
\* A document-type label: a string that stands as a whole ("" is the empty one).
PyLabel(v) == [t |-> "label", v |-> v]

Range(f) == { f[i] : i \in DOMAIN f }

Digits == <<"0","1","2","3","4","5","6","7","8","9">>
UpperCase ==
    <<"A","B","C","D","E","F","G","H","I","J","K","L","M",
      "N","O","P","Q","R","S","T","U","V","W","X","Y","Z">>
LowerCase ==
    <<"a","b","c","d","e","f","g","h","i","j","k","l","m",
      "n","o","p","q","r","s","t","u","v","w","x","y","z">>

\* The characters \s matches and strip() removes, among those of the model.
Whitespace == {" ", "\n", "\t"}

DigitSet == Range(Digits)
UpperSet == Range(UpperCase)
LowerSet == Range(LowerCase)

IsDigit(c) == c \in DigitSet
DigitVal(c) == (CHOOSE i \in DOMAIN Digits : Digits[i] = c) - 1

\* str.lower() on one character.
LowerChar(c) ==
    IF c \in UpperSet
    THEN LowerCase[CHOOSE i \in DOMAIN UpperCase : UpperCase[i] = c]
    ELSE c

\* A function on 1..n as the tuple it is (evaluated once, not at each access).
Tuple(f) == SubSeq(f, 1, Len(f))

Lower(s) == Tuple([i \in DOMAIN s |-> LowerChar(s[i])])

\* str.strip(): the text between its first and its last non-blank character.
Strip(s) ==
    LET solid == { i \in DOMAIN s : s[i] \notin Whitespace }
    IN  IF solid = {} THEN <<>>
        ELSE SubSeq(s, CHOOSE i \in solid : \A j \in solid : i <= j,
                       CHOOSE i \in solid : \A j \in solid : j <= i)

\* re.sub(r"\s+", " ", s): every maximal run of blanks becomes one space.
CollapseBlanks(s) ==
    LET heads == SelectSeq([i \in DOMAIN s |-> i],
                           LAMBDA i : s[i] \notin Whitespace
                                      \/ i = 1 \/ s[i-1] \notin Whitespace)
    IN  Tuple([k \in DOMAIN heads |->
                IF s[heads[k]] \in Whitespace THEN " " ELSE s[heads[k]]])

\* Python's `k in t` for strings.
Contains(t, k) ==
    \E i \in 0..(Len(t) - Len(k)) : \A j \in DOMAIN k : t[i + j] = k[j]

Count(s, c) == Cardinality({ i \in DOMAIN s : s[i] = c })

---------------------------------------------------------------------------
(* Document classifier: src/src/extraction.py, lines 10-46 *)

DOC_TYPES == <<"invoice", "receipt", "purchase_order", "contract", "unknown">>

_norm(text) == Lower(Strip(CollapseBlanks(text)))

InvoiceKeywords ==
    << <<"i","n","v","o","i","c","e">>,
       <<"i","n","v","#">>,
       <<"a","m","o","u","n","t"," ","d","u","e">>,
       <<"b","i","l","l"," ","t","o">>,
       <<"t","a","x"," ","i","n","v","o","i","c","e">>,
       <<"v","a","t">> >>

ReceiptKeywords ==
    << <<"r","e","c","e","i","p","t">>,
       <<"t","h","a","n","k"," ","y","o","u">>,
       <<"c","h","a","n","g","e">>,
       <<"c","a","s","h","i","e","r">>,
       <<"s","u","b","t","o","t","a","l">> >>

PurchaseOrderKeywords ==
    << <<"p","u","r","c","h","a","s","e"," ","o","r","d","e","r">>,
       <<"p","o"," ","n","u","m","b","e","r">>,
       <<"s","h","i","p"," ","t","o">>,
       <<"d","e","l","i","v","e","r"," ","t","o">>,
       <<"v","e","n","d","o","r">> >>

ContractKeywords ==
    << <<"a","g","r","e","e","m","e","n","t">>,
       <<"p","a","r","t","y">>,
       <<"t","e","r","m","s"," ","a","n","d"," ","c","o","n","d","i","t","i","o","n","s">>,
       <<"h","e","r","e","i","n","a","f","t","e","r">>,
       <<"w","h","e","r","e","a","s">> >>

\* What each matching keyword adds to its category's score.
KeywordWeight == 2

\* One `for kw in [...]: if kw in t: scores[...] += 2` loop, from keyword i on.
RECURSIVE KeywordLoop(_, _, _, _)
KeywordLoop(kws, t, i, score) ==
    IF i > Len(kws) THEN score
    ELSE KeywordLoop(kws, t, i + 1,
                     IF Contains(t, kws[i]) THEN score + KeywordWeight ELSE score)

\* A max that keeps the last of the keys with the highest score.
PyMaxKeyLast(scores) ==
    DOC_TYPES[CHOOSE i \in DOMAIN DOC_TYPES :
        /\ \A j \in DOMAIN DOC_TYPES : scores[DOC_TYPES[j]] <= scores[DOC_TYPES[i]]
        /\ \A j \in DOMAIN DOC_TYPES :
              j > i => scores[DOC_TYPES[j]] < scores[DOC_TYPES[i]]]

\* max(scores, key=scores.get): the first key, in the dict's insertion order
\* (that of DOC_TYPES), whose score no other key exceeds.
PyMaxKey(scores) ==
    DOC_TYPES[CHOOSE i \in DOMAIN DOC_TYPES :
        /\ \A j \in DOMAIN DOC_TYPES : scores[DOC_TYPES[j]] <= scores[DOC_TYPES[i]]
        /\ \A j \in DOMAIN DOC_TYPES :
              j < i => scores[DOC_TYPES[j]] < scores[DOC_TYPES[i]]]

detect_document_type(text) ==
    LET t == _norm(text)
        scores == [k \in Range(DOC_TYPES) |->
                     CASE k = "invoice" -> KeywordLoop(InvoiceKeywords, t, 1, 0)
                       [] k = "receipt" -> KeywordLoop(ReceiptKeywords, t, 1, 0)
                       [] k = "purchase_order" ->
                              KeywordLoop(PurchaseOrderKeywords, t, 1, 0)
                       [] k = "contract" -> KeywordLoop(ContractKeywords, t, 1, 0)
                       [] k = "unknown" -> 0]
        best == PyMaxKey(scores)
    IN  IF scores[best] > 0 THEN best ELSE "unknown"

---------------------------------------------------------------------------
(* Amount normalization: src/src/extraction.py, lines 60-82 *)

\* float(s) for a string of digits, "," and ".": it parses when it holds at
\* least one digit, at most one "." and nothing else.
FloatParses(s) ==
    /\ \A i \in DOMAIN s : IsDigit(s[i]) \/ s[i] = "."
    /\ \E i \in DOMAIN s : IsDigit(s[i])
    /\ Count(s, ".") <= 1

RECURSIVE Horner(_, _, _)
Horner(s, i, acc) ==
    IF i > Len(s) THEN acc
    ELSE Horner(s, i + 1, IF IsDigit(s[i]) THEN acc * 10 + DigitVal(s[i]) ELSE acc)

RECURSIVE Reduce(_, _)
Reduce(m, e) == IF e > 0 /\ m % 10 = 0 THEN Reduce(m \div 10, e - 1) ELSE PyFloat(m, e)

\* The value float(s) returns for a string that parses.
FloatOfDigits(s) ==
    LET dot == { i \in DOMAIN s : s[i] = "." }
        e == IF dot = {} THEN 0 ELSE Len(s) - (CHOOSE i \in dot : TRUE)
    IN  Reduce(Horner(s, 1, 0), e)

RemoveAll(s, c) == SelectSeq(s, LAMBDA x : x # c)
ReplaceAll(s, c, d) == Tuple([i \in DOMAIN s |-> IF s[i] = c THEN d ELSE s[i]])

\* A policy that takes a single comma for a thousands separator too.
SeparatorPolicyEager(s) ==
    IF Count(s, ",") > 0 /\ Count(s, ".") > 0
    THEN RemoveAll(s, ",")
    ELSE IF Count(s, ",") >= 1
         THEN RemoveAll(s, ",")
         ELSE s

\* Lines 69-78: which separator the commas are taken to be.
SeparatorPolicy(s) ==
    IF Count(s, ",") > 0 /\ Count(s, ".") > 0
    THEN RemoveAll(s, ",")
    ELSE IF Count(s, ",") >= 2
         THEN RemoveAll(s, ",")
         ELSE IF Count(s, ",") = 1 /\ Count(s, ".") = 0
              THEN ReplaceAll(s, ",", ".")
              ELSE s

_extract_amount(raw) ==
    IF raw.t = "None" \/ raw.s = <<>> THEN PyNone
    ELSE LET kept == SelectSeq(Strip(raw.s), LAMBDA c : IsDigit(c) \/ c \in {",", "."})
         IN  IF kept = <<>> THEN PyNone
             ELSE LET s == SeparatorPolicy(kept)
                  IN  IF FloatParses(s) THEN FloatOfDigits(s) ELSE PyNone

---------------------------------------------------------------------------
\* Regular expressions of the custom rules.
\*
\* A pattern string is the concatenation of its tokens: a literal character
\* c, a group "(c)", an optional group "(c)?", a starred group "(c*)", or an
\* unbalanced "(", with which the pattern does not compile.  Matching is
\* re.search with re.IGNORECASE: leftmost, greedy, backtracking.

Lit(c) == [kind |-> "lit", c |-> c]
Grp(c) == [kind |-> "grp", c |-> c]
OptGrp(c) == [kind |-> "opt", c |-> c]
StarGrp(c) == [kind |-> "star", c |-> c]
OpenParen == [kind |-> "open", c |-> "("]

Compiles(pat) == \A k \in DOMAIN pat : pat[k].kind # "open"

SameLetter(a, c) == a = c \/ LowerChar(a) = LowerChar(c)

\* How many characters from pos on are the letter c.
RunLength(text, pos, c) ==
    LET stop == { q \in pos..Len(text) : ~SameLetter(text[q], c) }
    IN  IF stop = {} THEN Len(text) + 1 - pos
        ELSE (CHOOSE q \in stop : \A r \in stop : q <= r) - pos

NoMatch == [ok |-> FALSE]

\* The match of tokens k.. of the pattern at position pos, the groups before
\* them captured as `groups`: the first one in the engine's order of trial.
RECURSIVE MatchFrom(_, _, _, _, _)
RECURSIVE StarFrom(_, _, _, _, _, _)
MatchFrom(pat, k, text, pos, groups) ==
    IF k > Len(pat) THEN [ok |-> TRUE, end |-> pos, groups |-> groups]
    ELSE LET tok == pat[k]
             here == pos <= Len(text) /\ SameLetter(text[pos], tok.c)
         IN  CASE tok.kind = "lit" ->
                    IF here THEN MatchFrom(pat, k + 1, text, pos + 1, groups)
                    ELSE NoMatch
               [] tok.kind = "grp" ->
                    IF here
                    THEN MatchFrom(pat, k + 1, text, pos + 1,
                                   Append(groups, PyStr(<<text[pos]>>)))
                    ELSE NoMatch
               [] tok.kind = "opt" ->
                    LET taken == IF here
                                 THEN MatchFrom(pat, k + 1, text, pos + 1,
                                                Append(groups, PyStr(<<text[pos]>>)))
                                 ELSE NoMatch
                    IN  IF taken.ok THEN taken
                        ELSE MatchFrom(pat, k + 1, text, pos, Append(groups, PyNone))
               [] tok.kind = "star" ->
                    StarFrom(pat, k, text, pos, groups, RunLength(text, pos, tok.c))
               [] tok.kind = "open" -> NoMatch

StarFrom(pat, k, text, pos, groups, n) ==
    LET r == MatchFrom(pat, k + 1, text, pos + n,
                       Append(groups, PyStr(SubSeq(text, pos, pos + n - 1))))
    IN  IF r.ok \/ n = 0 THEN r ELSE StarFrom(pat, k, text, pos, groups, n - 1)

\* The match object of a match m found at position p.
MatchObject(text, p, m) ==
    [ok |-> TRUE, groups |-> m.groups, whole |-> PyStr(SubSeq(text, p, m.end - 1))]

\* Whether the pattern matches at position p.
MatchesAt(pat, text, p) == MatchFrom(pat, 1, text, p, <<>>).ok

\* re.search(pat, text, flags=re.IGNORECASE) of a pattern that compiles: the
\* match at the leftmost position that has one.
re_search(pat, text) ==
    IF \A p \in 1..(Len(text) + 1) : ~MatchesAt(pat, text, p) THEN NoMatch
    ELSE MatchObject(text,
                     CHOOSE p \in 1..(Len(text) + 1) :
                        MatchesAt(pat, text, p)
                        /\ \A q \in 1..(p - 1) : ~MatchesAt(pat, text, q),
                     MatchFrom(pat, 1, text,
                               CHOOSE p \in 1..(Len(text) + 1) :
                                  MatchesAt(pat, text, p)
                                  /\ \A q \in 1..(p - 1) : ~MatchesAt(pat, text, q),
                               <<>>))

---------------------------------------------------------------------------
(* Field extraction: src/src/extraction.py, lines 49-57 and 85-202 *)

Raised == [t |-> "raise"]

\* Lines 53-56: m.group(group).strip(), and m.group(0).strip() when that
\* raises: no such group (IndexError), or a group that took no part in the
\* match, whose value None has no strip (AttributeError).
GroupOrWhole(m, group) ==
    IF group = 0 THEN PyStr(Strip(m.whole.s))
    ELSE IF group <= Len(m.groups) /\ m.groups[group].t = "str"
         THEN PyStr(Strip(m.groups[group].s))
         ELSE PyStr(Strip(m.whole.s))

\* _first_match from pattern i on; re.search raises re.error on a pattern
\* that does not compile, outside the try.  FirstMatchAt is lines 52-56, once
\* re.search returned m.
RECURSIVE FirstMatchFrom(_, _, _, _)
RECURSIVE FirstMatchAt(_, _, _, _, _)
FirstMatchFrom(patterns, i, text, group) ==
    IF i > Len(patterns) THEN PyNone
    ELSE IF ~Compiles(patterns[i]) THEN Raised
         ELSE FirstMatchAt(patterns, i, text, group, re_search(patterns[i], text))

FirstMatchAt(patterns, i, text, group, m) ==
    IF m.ok THEN GroupOrWhole(m, group)
    ELSE FirstMatchFrom(patterns, i + 1, text, group)

_first_match(patterns, text, group) == FirstMatchFrom(patterns, 1, text, group)

\* Python's truth value of an optional string.
Truthy(v) == v.t = "str" /\ v.s # <<>>

\* a or b, where evaluating a may raise.
PyOr(a, b) == IF a.t = "raise" \/ Truthy(a) THEN a ELSE b

\* Lines 190-195: the value of one custom field.
CustomValue(patterns, t) ==
    PyOr(_first_match(patterns, t, 3),
         PyOr(_first_match(patterns, t, 2),
              PyOr(_first_match(patterns, t, 1),
                   _first_match(patterns, t, 0))))

\* Lines 187-197: the loop over custom_rules.items() from rule i on, with
\* custom_out so far; Raised when a rule raises.  CustomStore is the body of
\* the loop once val is computed (lines 196-197).
RECURSIVE CustomLoop(_, _, _, _)
RECURSIVE CustomStore(_, _, _, _, _)
CustomLoop(custom_rules, i, t, custom_out) ==
    IF i > Len(custom_rules) THEN [t |-> "dict", d |-> custom_out]
    ELSE CustomStore(custom_rules, i, t, custom_out,
                     CustomValue(custom_rules[i].patterns, t))

CustomStore(custom_rules, i, t, custom_out, val) ==
    IF val.t = "raise" THEN Raised
    ELSE CustomLoop(custom_rules, i + 1, t,
            IF val.t # "None"
            THEN [f \in DOMAIN custom_out \cup {custom_rules[i].field} |->
                    IF f = custom_rules[i].field THEN val ELSE custom_out[f]]
            ELSE custom_out)

EmptyDict == [t |-> "dict", d |-> << >>]
EmptyList == [t |-> "list", items |-> << >>]

TestExtractText ==
    <<"I","n","v","o","i","c","e"," ","N","o",":"," ","I","N","V","-","1","2","3","4","5","\n","A","m","o","u","n","t"," ","D","u","e",":"," ","U","S","D"," ","1",",","2","3","4",".","5","6","\n","I","n","v","o","i","c","e"," ","D","a","t","e",":"," ","1","2","/","1","1","/","2","0","2","5","\n","V","A","T",":"," ","U","S","D"," ","1","2",".","3","4">>

\* What the built-in patterns of lines 106-184 find.  In the document of
\* tests/test_extraction.py they find what that test asserts.  The other
\* texts of the model are made of the letters, digits and blanks of OCR lines
\* and typed input, in which no built-in pattern matches: each needs an "@",
\* six digits in a row, or one of the words date, inv, total, due, tax, po
\* followed by a number.
BuiltinMatch(name, t) ==
    IF t = TestExtractText
    THEN CASE name \in {"date", "invoice_date"} ->
                  PyStr(<<"1","2","/","1","1","/","2","0","2","5">>)
           [] name = "invoice_number" -> PyStr(<<"I","N","V","-","1","2","3","4","5">>)
           [] name = "currency" -> PyStr(<<"U","S","D">>)
           [] name = "total_amount" ->
                  PyStr(<<"U","S","D"," ","1",",","2","3","4",".","5","6">>)
           [] name = "tax_amount" -> PyStr(<<"U","S","D"," ","1","2",".","3","4">>)
           [] OTHER -> PyNone
    ELSE PyNone

\* Lines 85-92: dateutil's parse(raw, fuzzy=True, dayfirst=True), as an ISO date.
_extract_date(raw) ==
    IF raw = PyStr(<<"1","2","/","1","1","/","2","0","2","5">>)
    THEN PyStr(<<"2","0","2","5","-","1","1","-","1","2">>)
    ELSE PyNone

Upper(s) ==
    Tuple([i \in DOMAIN s |->
             IF s[i] \in LowerSet
             THEN UpperCase[CHOOSE k \in DOMAIN LowerCase : LowerCase[k] = s[i]]
             ELSE s[i]])

\* Line 202: the values the final comprehension drops.
IsEmptyValue(v) ==
    \/ v.t = "None"
    \/ v.t = "str" /\ v.s = <<>>
    \/ v.t = "label" /\ v.v = ""
    \/ v.t = "list" /\ v.items = <<>>
    \/ v.t = "dict" /\ DOMAIN v.d = {}

\* Lines 103-123: the fields of every document type.
CommonFields(t, doc_type) ==
    [k \in {"doc_type", "emails", "phones", "date"} |->
        CASE k = "doc_type" -> PyLabel(doc_type)
          [] k = "emails" -> EmptyList
          [] k = "phones" -> EmptyList
          [] k = "date" -> _extract_date(BuiltinMatch("date", t))]

\* Lines 126-166: the fields of an invoice; currency is the match of line 152.
InvoiceFields(t, currency) ==
    [k \in {"invoice_number", "invoice_date", "due_date",
            "currency", "total_amount", "tax_amount"} |->
        CASE k = "invoice_number" -> BuiltinMatch(k, t)
          [] k \in {"invoice_date", "due_date"} -> _extract_date(BuiltinMatch(k, t))
          [] k = "currency" -> IF Truthy(currency) THEN PyStr(Upper(currency.s))
                               ELSE PyNone
          [] k \in {"total_amount", "tax_amount"} -> _extract_amount(BuiltinMatch(k, t))]

\* Lines 168-176: the field of a purchase order.
PoFields(t) == [k \in {"po_number"} |-> BuiltinMatch(k, t)]

\* Lines 126-184: the branch on doc_type.
TypedFields(t, doc_type) ==
    IF doc_type = "invoice" THEN InvoiceFields(t, BuiltinMatch("currency", t))
    ELSE IF doc_type = "purchase_order" THEN PoFields(t)
         ELSE << >>

\* out.update(...): the entries of typed over those of common.
Update(common, typed) ==
    [k \in DOMAIN common \cup DOMAIN typed |->
        IF k \in DOMAIN typed THEN typed[k] ELSE common[k]]

\* Lines 103-184: out before the custom rules.
BuiltinOut(t, doc_type) == Update(CommonFields(t, doc_type), TypedFields(t, doc_type))

\* Lines 198-199: out["custom"] = custom_out, when custom_out is not empty.
WithCustom(out, custom) ==
    [k \in DOMAIN out \cup (IF DOMAIN custom.d # {} THEN {"custom"} ELSE {}) |->
        IF k = "custom" THEN custom ELSE out[k]]

\* Line 202: the returned comprehension.
DropEmpty(all) ==
    [t |-> "dict", d |-> [k \in { x \in DOMAIN all : ~IsEmptyValue(all[x]) } |-> all[k]]]

\* Lines 186-202, with out of lines 103-184 and the outcome of the loop over
\* the custom rules.
FinishFields(out, custom) ==
    IF custom.t = "raise" THEN Raised ELSE DropEmpty(WithCustom(out, custom))

\* extract_fields(text, doc_type, custom_rules): the returned dict, or Raised.
\* custom_rules is the sequence of the mapping's items, in its order.
extract_fields(text, doc_type, custom_rules) ==
    FinishFields(BuiltinOut(text, doc_type), CustomLoop(custom_rules, 1, text, << >>))

---------------------------------------------------------------------------
(* OCR result normalizer: src/src/ocr_engine.py, lines 17-21 and 74-145 *)

PyList(items) == [t |-> "list", items |-> items]
PyTuple(items) == [t |-> "tuple", items |-> items]

IsSequence(v) == v.t \in {"list", "tuple"}

\* bool(v), as `if result:` and `if ln.text` take it.
PyTruthy(v) ==
    CASE v.t = "None" -> FALSE
      [] v.t \in {"list", "tuple"} -> v.items # <<>>
      [] v.t = "str" -> v.s # <<>>
      [] v.t = "int" -> v.n # 0
      [] v.t = "float" -> v.m # 0

RECURSIVE IntChars(_)
IntChars(n) ==
    IF n < 10 THEN <<Digits[n + 1]>>
    ELSE IntChars(n \div 10) \o <<Digits[(n % 10) + 1]>>

\* str(v), for the values a detection's text takes.
PyStrOf(v) ==
    CASE v.t = "str" -> v.s
      [] v.t = "int" -> IntChars(v.n)
      [] v.t = "None" -> <<"N","o","n","e">>

\* Whether float(v) returns (it raises TypeError on None and on a sequence,
\* ValueError on a string that is no number), and what it returns.
FloatOk(v) ==
    \/ v.t \in {"float", "int"}
    \/ v.t = "str" /\ FloatParses(Strip(v.s))

FloatOf(v) ==
    CASE v.t = "float" -> v
      [] v.t = "int" -> PyFloat(v.n, 0)
      [] v.t = "str" -> FloatOfDigits(Strip(v.s))

\* What iterating over a value yields: the items of a list or tuple, the
\* characters of a string; None and numbers are not iterable.
Iterable(v) == v.t \in {"list", "tuple", "str"}

Elements(v) ==
    IF v.t = "str" THEN Tuple([i \in DOMAIN v.s |-> PyStr(<<v.s[i]>>)]) ELSE v.items

\* Line 128: `box, txt, score = item` binds when item yields three elements.
Unpacks3(item) == Iterable(item) /\ Len(Elements(item)) = 3

OcrLine(box, text, score) == [box |-> box, text |-> text, score |-> score]

\* An unwrapping that leaves a one-element tuple as it is.
UnwrapPairOnly(out) ==
    IF out.t = "tuple" /\ Len(out.items) >= 2 THEN out.items[1] ELSE out

\* Lines 116-121: the detection list inside the engine's output.
Unwrap(out) ==
    IF out.t = "tuple" /\ Len(out.items) >= 1 THEN out.items[1] ELSE out

\* Lines 125-131: the loop over the detections from item i on.
RECURSIVE NormalizeLoop(_, _, _)
NormalizeLoop(items, i, lines) ==
    IF i > Len(items) THEN lines
    ELSE IF Unpacks3(items[i]) /\ FloatOk(Elements(items[i])[3])
         THEN NormalizeLoop(items, i + 1,
                  Append(lines, OcrLine(Elements(items[i])[1],
                                        PyStrOf(Elements(items[i])[2]),
                                        FloatOf(Elements(items[i])[3]))))
         ELSE NormalizeLoop(items, i + 1, lines)

\* sep.join(parts), from part i on.
RECURSIVE JoinFrom(_, _, _)
JoinFrom(sep, parts, i) ==
    IF i > Len(parts) THEN <<>>
    ELSE (IF i > 1 THEN sep ELSE <<>>) \o parts[i] \o JoinFrom(sep, parts, i + 1)

\* A join that keeps the lines whose text is empty.
BuildTextAllLines(lines) ==
    JoinFrom(<<"\n">>, [i \in DOMAIN lines |-> lines[i].text], 1)

\* Line 134: "\n".join([ln.text for ln in lines if ln.text]).
BuildText(lines) ==
    JoinFrom(<<"\n">>,
             SelectSeq([i \in DOMAIN lines |-> lines[i].text], LAMBDA s : s # <<>>),
             1)

\* The longest label _draw_boxes writes.
MaxLabel == 40

\* Line 82: [(int(x), int(y)) for x, y in ln.box] and line 84's pts[0] succeed.
Drawable(box) ==
    /\ IsSequence(box)
    /\ box.items # <<>>
    /\ \A i \in DOMAIN box.items :
          /\ IsSequence(box.items[i])
          /\ Len(box.items[i].items) = 2
          /\ \A j \in 1..2 : box.items[i].items[j].t \in {"int", "float"}

\* _draw_boxes(base_img, lines): the overlay, or Raised.
_draw_boxes(lines) ==
    IF \A i \in DOMAIN lines : Drawable(lines[i].box)
    THEN [t |-> "png",
          drawn |-> [i \in DOMAIN lines |->
                       [outline |-> lines[i].box,
                        label |-> SubSeq(lines[i].text, 1,
                                         IF Len(lines[i].text) < MaxLabel
                                         THEN Len(lines[i].text) ELSE MaxLabel)]]]
    ELSE Raised

\* Lines 123-131: the lines of a detection list.
LinesOf(result) ==
    IF PyTruthy(result) THEN NormalizeLoop(Elements(result), 1, <<>>) ELSE <<>>

\* ocr_image(engine, image, ..., return_word_boxes), given what engine(inp)
\* returned: the payload, or Raised.
ocr_image(out, return_word_boxes) ==
    LET result == Unwrap(out)
        lines == LinesOf(result)
        text == BuildText(lines)
        viz == IF return_word_boxes /\ lines # <<>> THEN _draw_boxes(lines) ELSE PyNone
    IN  IF viz.t = "raise" THEN Raised
        ELSE [t |-> "dict", text |-> text, lines |-> lines, visualization_png |-> viz]

---------------------------------------------------------------------------
(* The application's page loop: src/app.py, lines 54-68 and 77-176 *)

\* _load_custom_rules on what json.loads returned for the rules text: the
\* mapping's entries whose value is a list of strings, in their order; {} for
\* a blank or unparsable text and for a value that is no mapping.
_load_custom_rules(parsed) ==
    IF parsed.t # "dict" THEN <<>>
    ELSE LET good == SelectSeq(parsed.items,
                        LAMBDA e : e.v.t = "list"
                                   /\ \A i \in DOMAIN e.v.items : e.v.items[i].t = "str")
         IN  [i \in DOMAIN good |->
                [field |-> good[i].k,
                 patterns |-> [j \in DOMAIN good[i].v.items |-> good[i].v.items[j].pat]]]

\* Lines 121-129: the entry of all_pages_results, unless extract_fields raised.
PageRecord(idx, ocr_res, page_doc_type, extracted) ==
    IF extracted.t = "raise" THEN Raised
    ELSE [t |-> "dict", page |-> idx, doc_type |-> page_doc_type,
          text |-> ocr_res.text, lines |-> ocr_res.lines, extracted |-> extracted]

\* Lines 113-119: extracted, when the rules are enabled.
PageExtract(idx, ocr_res, page_doc_type, enable_rules, rules_json) ==
    PageRecord(idx, ocr_res, page_doc_type,
               IF enable_rules
               THEN extract_fields(ocr_res.text, page_doc_type,
                                   _load_custom_rules(rules_json))
               ELSE EmptyDict)

\* Lines 108-111, after ocr_image returned ocr_res or raised.
PageClassify(idx, ocr_res, enable_rules, rules_json) ==
    IF ocr_res.t = "raise" THEN Raised
    ELSE PageExtract(idx, ocr_res, detect_document_type(ocr_res.text),
                     enable_rules, rules_json)

\* Lines 103-129: the entry of all_pages_results for page idx, or Raised when
\* ocr_image or extract_fields raises.
PageResult(idx, out, enable_rules, rules_json) ==
    PageClassify(idx, ocr_image(out, TRUE), enable_rules, rules_json)

\* Lines 153-159: result_payload, unless the aggregated extraction raised.
PayloadRecord(pages, overall_doc_type, overall_extracted) ==
    IF overall_extracted.t = "raise" THEN Raised
    ELSE [t |-> "dict", doc_type |-> overall_doc_type, pages |-> pages]

\* Lines 144-151: overall_extracted of the aggregated text.
PayloadExtract(pages, full_text, overall_doc_type, enable_rules, rules_json) ==
    PayloadRecord(pages, overall_doc_type,
                  IF enable_rules
                  THEN extract_fields(full_text, overall_doc_type,
                                      _load_custom_rules(rules_json))
                  ELSE EmptyDict)

\* Lines 136-137: overall_doc_type of the aggregated text.
PayloadClassify(pages, full_text, enable_rules, rules_json) ==
    PayloadExtract(pages, full_text, detect_document_type(full_text),
                   enable_rules, rules_json)

\* Lines 135-159: result_payload, or Raised when the aggregated extraction raises.
ResultPayload(pages, enable_rules, rules_json) ==
    PayloadClassify(pages,
                    JoinFrom(<<"\n", "\n">>, [i \in DOMAIN pages |-> pages[i].text], 1),
                    enable_rules, rules_json)

---------------------------------------------------------------------------
\* The parts of the state of a component that is not run.

ClOff == cl_text = <<>> /\ cl_n = 0 /\ cl_pc = "off" /\ cl_out = "none"

AmOff == am_raw = PyNone /\ am_typed = 0 /\ am_pc = "off" /\ am_out = PyNone

ExOff ==
    /\ ex_text = <<>> /\ ex_doc = "unknown" /\ ex_rules = <<>>
    /\ ex_pc = "off" /\ ex_out = PyNone

OcOff ==
    /\ oc_pc = "off" /\ oc_out = PyNone /\ oc_flag = FALSE /\ oc_result = PyNone
    /\ oc_ret = PyNone

AppOff ==
    /\ app_pc = "off" /\ app_outs = <<>> /\ app_n = 0 /\ app_enable = FALSE
    /\ app_rules = PyNone /\ app_pages = <<>> /\ app_payload = PyNone

---------------------------------------------------------------------------
(* Classifier runs: a text is composed of fragments, then classified. *)

MaxFragments == 3

TestDetectText ==
    <<"T","A","X"," ","I","N","V","O","I","C","E","\n","I","n","v","o","i","c","e"," ","N","o",":"," ","I","N","V","-","1","2","3","4","5","\n","A","m","o","u","n","t"," ","D","u","e",":"," ","U","S","D"," ","1",",","2","3","4",".","5","6","\n","I","n","v","o","i","c","e"," ","D","a","t","e",":"," ","1","2","/","1","1","/","2","0","2","5">>

Fragments ==
    { <<"V","A","T">>, <<"C","h","a","n","g","e">>, <<"T","a","x">>,
      <<"I","n","v","o","i","c","e">>, <<"p","a","r","t","y">>,
      <<"V","e","n">>, <<"d","o","r">>, <<"S","h","i","p"," ","T","o">>,
      <<" ">>, <<"\n","\t">> }

InitClassify ==
    /\ cl_text \in { <<>>, TestDetectText }
    /\ cl_n = 0
    /\ cl_pc = "input"
    /\ cl_out = "none"
    /\ AmOff /\ ExOff /\ OcOff /\ AppOff

\* The caller extends the text by one fragment.
ClAppend(f) ==
    /\ cl_pc = "input"
    /\ cl_n < MaxFragments
    /\ cl_text' = cl_text \o f
    /\ cl_n' = cl_n + 1
    /\ UNCHANGED << cl_pc, cl_out, am_vars, ex_vars, oc_vars, app_vars >>

\* The call detect_document_type(cl_text).
ClDetect ==
    /\ cl_pc = "input"
    /\ cl_out' = detect_document_type(cl_text)
    /\ cl_pc' = "done"
    /\ UNCHANGED << cl_text, cl_n, am_vars, ex_vars, oc_vars, app_vars >>

NextClassify ==
    \/ \E f \in Fragments : ClAppend(f)
    \/ ClDetect

SpecClassify == InitClassify /\ [][NextClassify]_vars

\* The words of a text (its maximal runs of non-blank characters), lower-cased
\* and joined by single spaces.
ClaimWordStarts(text) ==
    SelectSeq([i \in DOMAIN text |-> i],
              LAMBDA i : text[i] \notin Whitespace
                         /\ (i = 1 \/ text[i-1] \in Whitespace))

ClaimWordEnd(text, i) ==
    CHOOSE j \in i..Len(text) :
        /\ \A k \in i..j : text[k] \notin Whitespace
        /\ (j = Len(text) \/ text[j+1] \in Whitespace)

RECURSIVE ClaimJoinWords(_, _, _)
ClaimJoinWords(text, starts, k) ==
    IF k > Len(starts) THEN <<>>
    ELSE (IF k > 1 THEN <<" ">> ELSE <<>>)
         \o Lower(SubSeq(text, starts[k], ClaimWordEnd(text, starts[k])))
         \o ClaimJoinWords(text, starts, k + 1)

ClaimNormalized(text) == ClaimJoinWords(text, ClaimWordStarts(text), 1)

ClaimKeywords(c) ==
    CASE c = "invoice" -> InvoiceKeywords
      [] c = "receipt" -> ReceiptKeywords
      [] c = "purchase_order" -> PurchaseOrderKeywords
      [] c = "contract" -> ContractKeywords

\* Twice the number of the category's keywords that occur in the text.
ClaimScore(c, text) ==
    2 * Cardinality({ i \in DOMAIN ClaimKeywords(c) :
                        \E at \in 1..(Len(text) + 1 - Len(ClaimKeywords(c)[i])) :
                            SubSeq(text, at, at + Len(ClaimKeywords(c)[i]) - 1)
                                = ClaimKeywords(c)[i] })

ClaimCategories == <<"invoice", "receipt", "purchase_order", "contract">>

\* C1: detect_document_type returns one of invoice, receipt, purchase_order,
\* contract, unknown; with the text whitespace-collapsed and lower-cased and
\* each category scoring 2 per keyword that occurs in it, the result is unknown
\* exactly when every score is zero, and otherwise the first category, in the
\* order invoice, receipt, purchase_order, contract, whose score is the maximum.
C1_DetectContract ==
    cl_pc = "done" =>
        LET n == ClaimNormalized(cl_text)
            score == [i \in DOMAIN ClaimCategories |-> ClaimScore(ClaimCategories[i], n)]
        IN  /\ cl_out \in {"invoice", "receipt", "purchase_order", "contract", "unknown"}
            /\ (cl_out = "unknown") <=> (\A i \in DOMAIN score : score[i] = 0)
            /\ cl_out # "unknown" =>
                  \E i \in DOMAIN score :
                      /\ cl_out = ClaimCategories[i]
                      /\ \A j \in DOMAIN score : score[j] <= score[i]
                      /\ \A j \in DOMAIN score : j < i => score[j] < score[i]

\* A classified text in which receipt and contract tie at the maximum score,
\* above invoice and purchase_order, and receipt, the earlier one, is returned.
C1_Witness ==
    /\ cl_pc = "done"
    /\ cl_out = "receipt"
    /\ ClaimScore("receipt", ClaimNormalized(cl_text)) = 2
    /\ ClaimScore("contract", ClaimNormalized(cl_text)) = 2
    /\ ClaimScore("invoice", ClaimNormalized(cl_text)) = 0

---------------------------------------------------------------------------
(* Extraction runs: the text is the document of tests/test_extraction.py or
   is typed, a rule mapping is written, one field, pattern or token at a
   time, then extract_fields is called. *)

MaxTyped == 2
MaxRules == 2
MaxPatterns == 2
MaxTokens == 3

ExChars == {"w", "x"}
ExFields == <<"f", "g", "h", "k">>
ExTokens == { Lit("w"), Grp("w"), Grp("x"), OptGrp("y"), StarGrp("x"), OpenParen }

RECURSIVE PatternCountFrom(_, _)
PatternCountFrom(rules, i) ==
    IF i > Len(rules) THEN 0
    ELSE Len(rules[i].patterns) + PatternCountFrom(rules, i + 1)

RECURSIVE LengthsFrom(_, _)
LengthsFrom(patterns, j) ==
    IF j > Len(patterns) THEN 0 ELSE Len(patterns[j]) + LengthsFrom(patterns, j + 1)

RECURSIVE TokenCountFrom(_, _)
TokenCountFrom(rules, i) ==
    IF i > Len(rules) THEN 0
    ELSE LengthsFrom(rules[i].patterns, 1) + TokenCountFrom(rules, i + 1)

PatternCount(rules) == PatternCountFrom(rules, 1)
TokenCount(rules) == TokenCountFrom(rules, 1)

InitExtract ==
    /\ \E call \in { << <<>>, "unknown" >>, << <<>>, "purchase_order" >>,
                      << TestExtractText, "invoice" >> } :
          ex_text = call[1] /\ ex_doc = call[2]
    /\ ex_rules = <<>>
    /\ ex_pc = "input"
    /\ ex_out = PyNone
    /\ ClOff /\ AmOff /\ OcOff /\ AppOff

ExType(c) ==
    /\ ex_pc = "input"
    /\ Len(ex_text) < MaxTyped
    /\ ex_text' = Append(ex_text, c)
    /\ UNCHANGED << ex_doc, ex_rules, ex_pc, ex_out,
                    cl_vars, am_vars, oc_vars, app_vars >>

\* A new key of the rule mapping, with an empty pattern list.
ExAddRule ==
    /\ ex_pc = "input"
    /\ Len(ex_rules) < MaxRules
    /\ ex_rules' = Append(ex_rules, [field |-> ExFields[Len(ex_rules) + 1],
                                     patterns |-> <<>>])
    /\ UNCHANGED << ex_text, ex_doc, ex_pc, ex_out,
                    cl_vars, am_vars, oc_vars, app_vars >>

\* A new, empty pattern string at the end of the last key's list.
ExAddPattern ==
    /\ ex_pc = "input"
    /\ ex_rules # <<>>
    /\ PatternCount(ex_rules) < MaxPatterns
    /\ ex_rules' = [ex_rules EXCEPT ![Len(ex_rules)].patterns = Append(@, <<>>)]
    /\ UNCHANGED << ex_text, ex_doc, ex_pc, ex_out,
                    cl_vars, am_vars, oc_vars, app_vars >>

\* One more token at the end of the last pattern string.
ExAddToken(tok) ==
    /\ ex_pc = "input"
    /\ ex_rules # <<>>
    /\ ex_rules[Len(ex_rules)].patterns # <<>>
    /\ TokenCount(ex_rules) < MaxTokens
    /\ ex_rules' = [ex_rules EXCEPT
                      ![Len(ex_rules)].patterns[Len(ex_rules[Len(ex_rules)].patterns)] =
                          Append(@, tok)]
    /\ UNCHANGED << ex_text, ex_doc, ex_pc, ex_out,
                    cl_vars, am_vars, oc_vars, app_vars >>

\* The call extract_fields(text, doc_type, custom_rules).
ExExtract ==
    /\ ex_pc = "input"
    /\ \E ret \in {extract_fields(ex_text, ex_doc, ex_rules)} :
          /\ ex_out' = ret
          /\ ex_pc' = IF ret.t = "raise" THEN "raised" ELSE "returned"
    /\ UNCHANGED << ex_text, ex_doc, ex_rules,
                    cl_vars, am_vars, oc_vars, app_vars >>

NextExtract ==
    \/ \E c \in ExChars : ExType(c)
    \/ ExAddRule
    \/ ExAddPattern
    \/ \E tok \in ExTokens : ExAddToken(tok)
    \/ ExExtract

SpecExtract == InitExtract /\ [][NextExtract]_vars

\* The pattern of a list that the search stops at: the first one that
\* matches the text, 0 when none does.
ClaimFirstMatching(patterns, text) ==
    LET hits == { i \in DOMAIN patterns :
                    Compiles(patterns[i]) /\ re_search(patterns[i], text).ok }
    IN  IF hits = {} THEN 0 ELSE CHOOSE i \in hits : \A j \in hits : i <= j

\* The text of a group, empty when the group took no part in the match.
ClaimGroupText(v) == IF v.t = "str" THEN Strip(v.s) ELSE <<>>

\* The first non-empty one among the groups of a match, from the last to the
\* first, then the full match.
ClaimPreferred(m) ==
    LET filled == { g \in DOMAIN m.groups : ClaimGroupText(m.groups[g]) # <<>> }
    IN  IF filled = {} THEN Strip(m.whole.s)
        ELSE ClaimGroupText(m.groups[CHOOSE g \in filled : \A h \in filled : h <= g])

\* The value the returned mapping holds for a custom field, None when absent.
ClaimStored(field) ==
    IF "custom" \in DOMAIN ex_out.d /\ field \in DOMAIN ex_out.d["custom"].d
    THEN ex_out.d["custom"].d[field]
    ELSE PyNone

\* The claim about the fields whose first matching pattern has `groups`
\* capture groups: the stored value is the preferred one.
ClaimPreference(groups) ==
    ex_pc = "returned" =>
        \A i \in DOMAIN ex_rules :
            LET k == ClaimFirstMatching(ex_rules[i].patterns, ex_text)
                m == re_search(ex_rules[i].patterns[k], ex_text)
            IN  (k > 0 /\ Len(m.groups) \in groups /\ ClaimPreferred(m) # <<>>)
                    => ClaimStored(ex_rules[i].field) = PyStr(ClaimPreferred(m))

\* C3: when the first pattern of a field's list to match has three capture
\* groups, the field holds the first non-empty one among group 3, group 2,
\* group 1 and the full match, in this order.
C3_ThreeGroupPreference == ClaimPreference({3})

\* C9: when the first pattern of a field's list to match has fewer than three
\* capture groups, the field holds its highest-numbered non-empty group, and
\* the full match only when every group it has is empty.
C9_FewerGroupsPreference == ClaimPreference({0, 1, 2})

\* The values the omission law excludes.
ClaimEmpty(v) ==
    \/ v.t = "None"
    \/ v.t = "str" /\ v.s = <<>>
    \/ v.t = "label" /\ v.v = ""
    \/ v.t = "list" /\ v.items = <<>>
    \/ v.t = "dict" /\ DOMAIN v.d = {}

\* C5: no key of the returned mapping, and no field of its nested custom
\* mapping, holds null, an empty string, an empty list or an empty mapping.
C5_OmissionLaw ==
    ex_pc = "returned" =>
        \A k \in DOMAIN ex_out.d :
            /\ ~ClaimEmpty(ex_out.d[k])
            /\ k = "custom" =>
                  \A f \in DOMAIN ex_out.d[k].d : ~ClaimEmpty(ex_out.d[k].d[f])

\* C6: extract_fields never raises; whatever the rules, it returns a mapping
\* that holds every built-in field the text has.
C6_NeverRaises ==
    ex_pc \in {"returned", "raised"} =>
        /\ ex_pc = "returned"
        /\ ex_out.t = "dict"
        /\ \A k \in DOMAIN extract_fields(ex_text, ex_doc, <<>>).d :
              k \in DOMAIN ex_out.d
              /\ ex_out.d[k] = extract_fields(ex_text, ex_doc, <<>>).d[k]

---------------------------------------------------------------------------
(* Amount runs: a raw token is a seed followed by typed characters. *)

MaxAmountTyped == 2

AmountSeeds ==
    { <<>>,
      <<"1",",","2","3","4",".","5","6">>,
      <<"1","2","3","4",",","5","6">>,
      <<"1",",","2","3","4",",","5","6","7">>,
      <<"U","S","D"," ","1",",","2","3","4",".","5","6">> }

AmountChars == {"7", ",", ".", " ", "$"}

InitAmount ==
    /\ am_raw \in {PyNone} \cup { PyStr(s) : s \in AmountSeeds }
    /\ am_typed = 0
    /\ am_pc = "input"
    /\ am_out = PyNone
    /\ ClOff /\ ExOff /\ OcOff /\ AppOff

AmType(c) ==
    /\ am_pc = "input"
    /\ am_raw.t = "str"
    /\ am_typed < MaxAmountTyped
    /\ am_raw' = PyStr(Append(am_raw.s, c))
    /\ am_typed' = am_typed + 1
    /\ UNCHANGED << am_pc, am_out, cl_vars, ex_vars, oc_vars, app_vars >>

\* The call _extract_amount(am_raw).
AmExtract ==
    /\ am_pc = "input"
    /\ am_out' = _extract_amount(am_raw)
    /\ am_pc' = "done"
    /\ UNCHANGED << am_raw, am_typed, cl_vars, ex_vars, oc_vars, app_vars >>

NextAmount ==
    \/ \E c \in AmountChars : AmType(c)
    \/ AmExtract

SpecAmount == InitAmount /\ [][NextAmount]_vars

ClaimKept(raw) == SelectSeq(raw, LAMBDA c : c \in Range(Digits) \cup {",", "."})

\* The string the claim's rules (a) to (d) leave of the kept characters.
ClaimSeparated(k) ==
    LET commas == Count(k, ",")
        periods == Count(k, ".")
    IN  CASE commas >= 1 /\ periods >= 1 -> SelectSeq(k, LAMBDA c : c # ",")
          [] periods = 0 /\ commas >= 2 -> SelectSeq(k, LAMBDA c : c # ",")
          [] periods = 0 /\ commas = 1 ->
                 Tuple([i \in DOMAIN k |-> IF k[i] = "," THEN "." ELSE k[i]])
          [] commas = 0 -> k

\* C4: _extract_amount keeps only digits, commas and periods of a matched
\* token and returns absent if nothing remains; otherwise (a) with a comma and a
\* period it removes the commas, (b) else with two or more commas it removes
\* them, (c) else with exactly one comma and no period it makes the comma a
\* period, (d) else it leaves the string; the result is the number that string
\* parses to, or absent when it does not parse.  1,234.56 gives 1234.56,
\* 1234,56 gives 1234.56 and 1,234,567 gives 1234567.
C4_AmountPolicy ==
    (am_pc = "done" /\ am_raw.t = "str" /\ am_raw.s # <<>>) =>
        /\ LET k == ClaimKept(am_raw.s)
           IN  IF k = <<>> THEN am_out = PyNone
               ELSE IF FloatParses(ClaimSeparated(k))
                    THEN am_out = FloatOfDigits(ClaimSeparated(k))
                    ELSE am_out = PyNone
        /\ am_raw.s = <<"1",",","2","3","4",".","5","6">> => am_out = PyFloat(123456, 2)
        /\ am_raw.s = <<"1","2","3","4",",","5","6">> => am_out = PyFloat(123456, 2)
        /\ am_raw.s = <<"1",",","2","3","4",",","5","6","7">> => am_out = PyFloat(1234567, 0)

\* A token with one comma and no period, among other characters, was
\* normalized with the comma read as the decimal separator.
C4_Witness ==
    /\ am_pc = "done"
    /\ am_raw = PyStr(<<"1","2","3","4",",","5","6","$","7">>)
    /\ am_out = PyFloat(1234567, 3)

---------------------------------------------------------------------------
(* OCR runs: one direct call of ocr_image, or one run of the application  *)
(* over the pages of an uploaded file.                                    *)

MaxDetections == 2
MaxPages == 2

Pt(x, y) == PyList(<<PyInt(x), PyInt(y)>>)
PolyA == PyList(<<Pt(0, 0), Pt(9, 0), Pt(9, 4), Pt(0, 4)>>)
PolyB == PyList(<<Pt(0, 5), Pt(9, 5), Pt(9, 9), Pt(0, 9)>>)
Elapse == PyFloat(25, 2)

\* Well-formed detections: with a text, with a score given as a string, and
\* with an empty text.
DetA == PyList(<<PolyA, PyStr(<<"V","A","T">>), PyFloat(9, 1)>>)
DetB == PyTuple(<<PolyB, PyStr(<<"w","x">>), PyStr(<<"0",".","5">>)>>)
DetEmpty == PyList(<<PolyB, PyStr(<<>>), PyFloat(9, 1)>>)
\* Malformed ones: two elements, a score that is no number, no polygon, and
\* an entry that is no sequence.
DetArity == PyList(<<PolyA, PyStr(<<"V","A","T">>)>>)
DetScore == PyList(<<PolyA, PyStr(<<"C","h","a","n","g","e">>), PyNone>>)
DetNoBox == PyList(<<PyNone, PyInt(7), PyFloat(9, 1)>>)
DetNone == PyNone

\* A detection that is a string of three characters: it unpacks into them.
DetString == PyStr(<<"1", "2", "5">>)

Detections == {DetA, DetB, DetEmpty, DetArity, DetScore, DetNoBox, DetNone, DetString}

ListsOf(S, n) == UNION { [1..k -> S] : k \in 0..n }

\* The shapes engine(inp) returns: the bare list, (list, elapse), (list,),
\* (None, elapse), () and None.
EngineOutputs ==
    { PyList(d) : d \in ListsOf(Detections, MaxDetections) }
    \cup { PyTuple(<<PyList(d), Elapse>>) : d \in ListsOf(Detections, MaxDetections) }
    \cup { PyTuple(<<PyList(d)>>) : d \in ListsOf(Detections, MaxDetections) }
    \cup { PyTuple(<<PyNone, Elapse>>), PyTuple(<<>>), PyNone }

\* What RapidOCR returns for the pages of an uploaded file: (list, elapse),
\* and (None, elapse) for a blank page.
PageOutputs ==
    { PyTuple(<<PyList(<<DetA, DetEmpty, DetB>>), Elapse>>),
      PyTuple(<<PyList(<<DetB, DetArity>>), Elapse>>),
      PyTuple(<<PyList(<<DetEmpty>>), Elapse>>),
      PyTuple(<<PyList(<<DetA, DetNoBox>>), Elapse>>),
      PyTuple(<<PyNone, Elapse>>) }

RulePattern(tokens) == [t |-> "str", pat |-> tokens]
JsonObject(items) == [t |-> "dict", items |-> items]

\* The rules text of the sidebar, parsed: blank, a list, a mapping with one
\* good entry and one malformed one, and a mapping whose pattern does not compile.
RulesTexts ==
    { [t |-> "blank"],
      PyList(<<>>),
      JsonObject(<< [k |-> "f", v |-> PyList(<<RulePattern(<<Lit("w"), Grp("x")>>)>>)],
                    [k |-> "g", v |-> PyStr(<<"w">>)] >>),
      JsonObject(<< [k |-> "f", v |-> PyList(<<RulePattern(<<OpenParen>>)>>)] >>) }

InitOcr ==
    /\ oc_pc = "idle"
    /\ oc_out = PyNone
    /\ oc_flag = FALSE
    /\ oc_result = PyNone
    /\ oc_ret = PyNone
    /\ app_pc = "idle"
    /\ app_outs = <<>>
    /\ app_n = 0
    /\ app_enable = FALSE
    /\ app_rules = PyNone
    /\ app_pages = <<>>
    /\ app_payload = PyNone
    /\ ClOff /\ AmOff /\ ExOff

\* A caller runs ocr_image once, on an image for which the engine returns out.
OcrCall(out, return_word_boxes) ==
    /\ oc_pc = "idle"
    /\ app_pc = "idle"
    /\ oc_out' = out
    /\ oc_flag' = return_word_boxes
    /\ oc_result' = Unwrap(out)
    /\ \E ret \in {ocr_image(out, return_word_boxes)} :
          /\ oc_ret' = ret
          /\ oc_pc' = IF ret.t = "raise" THEN "raised" ELSE "returned"
    /\ app_pc' = "off"
    /\ UNCHANGED << app_outs, app_n, app_enable, app_rules, app_pages, app_payload,
                    cl_vars, am_vars, ex_vars >>

\* app.py, lines 30-52 and 70-89: a file of n pages is uploaded, with the
\* sidebar's settings.
AppStart(n, enable_rules, rules_json) ==
    /\ app_pc = "idle"
    /\ oc_pc = "idle"
    /\ app_pc' = "loop"
    /\ app_n' = n
    /\ app_enable' = enable_rules
    /\ app_rules' = rules_json
    /\ oc_pc' = "off"
    /\ UNCHANGED << oc_out, oc_flag, oc_result, oc_ret, app_outs, app_pages,
                    app_payload, cl_vars, am_vars, ex_vars >>

\* One pass of the loop of app.py, lines 91-133, on the next page; an
\* exception ends the run in the handler of line 174.
AppPage(out) ==
    /\ app_pc = "loop"
    /\ Len(app_pages) < app_n
    /\ app_outs' = Append(app_outs, out)
    /\ \E page \in {PageResult(Len(app_pages) + 1, out, app_enable, app_rules)} :
          IF page.t = "raise"
          THEN app_pc' = "failed" /\ app_pages' = app_pages
          ELSE app_pc' = "loop" /\ app_pages' = Append(app_pages, page)
    /\ UNCHANGED << oc_vars, app_n, app_enable, app_rules, app_payload,
                    cl_vars, am_vars, ex_vars >>

\* Lines 135-166, after the last page.
AppFinish ==
    /\ app_pc = "loop"
    /\ Len(app_pages) = app_n
    /\ \E payload \in {ResultPayload(app_pages, app_enable, app_rules)} :
          IF payload.t = "raise"
          THEN app_pc' = "failed" /\ app_payload' = app_payload
          ELSE app_pc' = "done" /\ app_payload' = payload
    /\ UNCHANGED << oc_vars, app_outs, app_n, app_enable, app_rules, app_pages,
                    cl_vars, am_vars, ex_vars >>

NextOcr ==
    \/ \E out \in EngineOutputs, f \in BOOLEAN : OcrCall(out, f)
    \/ \E n \in 1..MaxPages, e \in BOOLEAN, r \in RulesTexts : AppStart(n, e, r)
    \/ \E out \in PageOutputs : AppPage(out)
    \/ AppFinish

SpecOcr == InitOcr /\ [][NextOcr]_vars

\* The detections of a list that unpack into (polygon, text, score): three
\* elements, the last of them a score, which float() takes.
ClaimWellFormed(d) == Unpacks3(d) /\ FloatOk(Elements(d)[3])

ClaimUnpacking(result) ==
    IF IsSequence(result) THEN SelectSeq(result.items, ClaimWellFormed) ELSE <<>>

\* C2: no call of ocr_image raises because of a malformed detection, and the
\* lines it returns are the detections that unpack into (polygon, text,
\* score), each once and in the engine's order, every other detection being
\* skipped.
C2_MalformedSkipped ==
    oc_pc \in {"returned", "raised"} =>
        /\ oc_pc = "returned"
        /\ Len(oc_ret.lines) = Len(ClaimUnpacking(oc_result))
        /\ \A i \in DOMAIN oc_ret.lines :
              /\ oc_ret.lines[i].box = Elements(ClaimUnpacking(oc_result)[i])[1]
              /\ oc_ret.lines[i].text = PyStrOf(Elements(ClaimUnpacking(oc_result)[i])[2])

\* Drawing the overlay of the call's lines fails.
ClaimOverlayFails ==
    /\ LinesOf(Unwrap(oc_out)) # <<>>
    /\ _draw_boxes(LinesOf(Unwrap(oc_out))).t = "raise"

\* C7: when the overlay is asked for and drawing it fails, ocr_image still
\* returns, with the text and the lines it returns without the overlay.
C7_OverlayFailureHarmless ==
    (oc_pc \in {"returned", "raised"} /\ oc_flag /\ ClaimOverlayFails) =>
        /\ oc_pc = "returned"
        /\ oc_ret.text = ocr_image(oc_out, FALSE).text
        /\ oc_ret.lines = ocr_image(oc_out, FALSE).lines

\* The detection list of a call, when tuples of at least `least` elements are
\* unwrapped: it is the call's local result, and the returned lines are its.
ClaimUnwrap(least) ==
    oc_pc \in {"returned", "raised"} =>
        LET claimed == IF oc_out.t = "tuple" /\ Len(oc_out.items) >= least
                       THEN oc_out.items[1]
                       ELSE oc_out
        IN  /\ oc_result = claimed
            /\ oc_pc = "returned" => oc_ret.lines = LinesOf(claimed)

\* C8, as amended: the first element of the engine's output is the detection
\* list exactly when the output is a tuple with one or more elements; every
\* other output is the detection list as it is.
C8_UnwrapNonEmptyTuple == ClaimUnwrap(1)

\* C8, as stated: only a tuple with two or more elements is unwrapped.
C8_UnwrapPair == ClaimUnwrap(2)

\* A call returned lines taken out of a one-element tuple.
C8_Witness ==
    /\ oc_pc = "returned"
    /\ oc_out.t = "tuple"
    /\ Len(oc_out.items) = 1
    /\ oc_ret.lines # <<>>

\* The newline join of the non-empty texts of lines, in their order.
RECURSIVE ClaimPageText(_)
ClaimPageText(lines) ==
    IF lines = <<>> THEN <<>>
    ELSE LET rest == ClaimPageText(Tail(lines))
         IN  IF Head(lines).text = <<>> THEN rest
             ELSE IF rest = <<>> THEN Head(lines).text
                  ELSE Head(lines).text \o <<"\n">> \o rest

\* C10: the text of a page is the newline join of the non-empty texts of its
\* lines, in their order: in what ocr_image returns, in every entry of
\* all_pages_results, whose lines are the normalizer's, and in every page of
\* the payload.
C10_PageTextIsJoin ==
    /\ oc_pc = "returned" => oc_ret.text = ClaimPageText(oc_ret.lines)
    /\ \A i \in DOMAIN app_pages :
          /\ app_pages[i].text = ClaimPageText(app_pages[i].lines)
          /\ app_pages[i].lines = LinesOf(Unwrap(app_outs[i]))
    /\ app_pc = "done" =>
          /\ Len(app_payload.pages) = app_n
          /\ \A i \in DOMAIN app_payload.pages :
                /\ app_payload.pages[i].text = ClaimPageText(app_payload.pages[i].lines)
                /\ app_payload.pages[i].lines = LinesOf(Unwrap(app_outs[i]))

\* A payload of two pages, one of them with a line whose text is empty
\* between two lines with a text.
C10_Witness ==
    /\ app_pc = "done"
    /\ Len(app_payload.pages) = 2
    /\ \E i \in DOMAIN app_payload.pages :
          /\ Len(app_payload.pages[i].lines) = 3
          /\ app_payload.pages[i].lines[2].text = <<>>
          /\ app_payload.pages[i].lines[1].text # <<>>
          /\ app_payload.pages[i].lines[3].text # <<>>

====
